---- MODULE Spec2Model ----
(***************************************************************************)
(* A model of the limit order book of src/orderbook.cpp: class OrderBook   *)
(* with its two price-ordered side maps (bids_, asks_), the order table    *)
(* orders_, and the handlers addTrade, cancelOrder, ModifyOrder and the    *)
(* matching loop MatchOrders.                                              *)
(*                                                                         *)
(* A handler that runs the matching loop is modelled as its admission step *)
(* followed by one MatchOrders step per iteration of the inner loop and a  *)
(* final MatchOrdersReturn step; pc says where the call in flight is.  No   *)
(* other handler can start while pc # "idle" (the class is single-threaded).*)
(* A call that has returned leaves pc = "returned" with its result in call  *)
(* and trades; the caller then drops the result (Discard), as main does.   *)
(*                                                                         *)
(* The code reads through references that dangle:                          *)
(*   - cancelOrder, line 423: order and orderIterator refer into the       *)
(*     orders_ node that line 424 erases;                                  *)
(*   - MatchOrders, lines 337-338: bid and ask refer into the list nodes   *)
(*     that pop_front destroys (lines 346, 350), and bids/asks/bidPrice/   *)
(*     askPrice into the map nodes that lines 355, 358 erase; all are read *)
(*     again at lines 347, 351, 361-362 and in the loop condition, 335;    *)
(*   - ModifyOrder, line 452: orderptr refers into the orders_ node that   *)
(*     cancelOrder erases, and the Order it points to is freed there.      *)
(* Such a read is undefined behaviour.  The model gives it these outcomes: *)
(* the call proceeds with the values the memory held before it was freed   *)
(* for pointers, iterators and list headers, or the access is invalid and  *)
(* the process stops (pc = "fault"); a scalar field of an Order that has   *)
(* been freed (its id, price, type) reads as any value of its domain.      *)
(***************************************************************************)
EXTENDS Integers, Sequences, FiniteSets, TLC

\* Bounds of the model.
MaxOrderId == 3
MaxPrice == 2
MaxQuantity == 2

\* Quantities are counted in units of 2^30, so that the width of the type
\* Quantity (std::uint32_t, line 23) is within reach: a Quantity holds the values
\* below 2^32, which is QuantityWrap units.  The code does nothing with
\* quantities but compare, subtract and add them, so that a run of the model is
\* the run of the program on the same orders with quantities 2^30 times as large.
QuantityWrap == 4

\* The ids, prices and quantities callers use.  Quantities are positive, as in
\* every order main constructs; the code itself accepts 0, and the properties
\* confirmed below hold as well with Quantities == 0..MaxQuantity (a state space
\* five times as large).
OrderIds == 1..MaxOrderId
Prices == 1..MaxPrice
Quantities == 1..MaxQuantity

OrderType == {"GoodTillCanceled", "FillAndKill"}
Side == {"Buy", "Sell"}

\* class Order: the fields the constructor sets.
Order(orderType, orderId, side, price, quantity) ==
    [orderType |-> orderType, orderId |-> orderId, side |-> side, price |-> price,
     initQuantity |-> quantity, remainingQuantity |-> quantity]

\* Every order a caller can construct.
Orders ==
    {Order(t, i, s, p, q) : t \in OrderType, i \in OrderIds, s \in Side,
                            p \in Prices, q \in Quantities}

\* class ModOrder.
ModOrder(orderId, price, side, quantity) ==
    [orderId |-> orderId, price |-> price, side |-> side, quantity |-> quantity]

ModOrders ==
    {ModOrder(i, p, s, q) : i \in OrderIds, p \in Prices, s \in Side, q \in Quantities}

\* ModOrder::makeOrderPointer.
makeOrderPointer(m, orderType) ==
    Order(orderType, m.orderId, m.side, m.price, m.quantity)

\* struct TradeInfo and class Trade.
TradeInfo(orderId, price, quantity) ==
    [orderId |-> orderId, price |-> price, quantity |-> quantity]

\* Trade with the two legs in each other's place.
TradeSwapped(bid, ask) == [bid |-> ask, ask |-> bid]

Trade(bid, ask) == [bid |-> bid, ask |-> ask]

VARIABLES
    bids,    \* bids_: price -> list of orders, DOMAIN bids = the levels present
    asks,    \* asks_: price -> list of orders
    orders,  \* orders_: order id -> the order its entry points to
    pc,      \* "idle", "match" (inside MatchOrders), "returned", "fault", "logic_error"
    call,    \* the call in flight or the last one returned: handler, argument, outcome
    trades,  \* the Trades vector of that call
    entered  \* the remaining quantity in the book when that call entered MatchOrders

vars == <<bids, asks, orders, pc, call, trades, entered>>

\* A map with no key.
NoLevels == [p \in {} |-> <<>>]

Min(S) == CHOOSE x \in S : \A y \in S : x <= y
Max(S) == CHOOSE x \in S : \A y \in S : x >= y

\* bids_.begin()->first with std::greater, asks_.begin()->first with std::less.
BestBid(b) == Max(DOMAIN b)
BestAsk(a) == Min(DOMAIN a)

\* The book as one value: the three containers.
Book == [bids |-> bids, asks |-> asks, orders |-> orders]

\* isFilled that never reports an order as filled.
isFilledNever(o) == FALSE

\* Order::isFilled.
isFilled(o) == o.remainingQuantity = 0

\* Fill taking all that remains, whatever the quantity of the trade.
FillWhole(o, quantity) == [o EXCEPT !.remainingQuantity = 0]

\* Order::Fill, when quantity <= remainingQuantity.
Fill(o, quantity) == [o EXCEPT !.remainingQuantity = @ - quantity]

\* canMatch looking at the order's own side of the book.
canMatchOwnSide(bk, side, price) ==
    IF side = "Buy"
    THEN IF DOMAIN bk.bids = {} THEN FALSE ELSE price >= BestBid(bk.bids)
    ELSE IF DOMAIN bk.asks = {} THEN FALSE ELSE price <= BestAsk(bk.asks)

\* OrderBook::canMatch on book bk.
canMatch(bk, side, price) ==
    IF side = "Buy"
    THEN IF DOMAIN bk.asks = {} THEN FALSE ELSE price >= BestAsk(bk.asks)
    ELSE IF DOMAIN bk.bids = {} THEN FALSE ELSE price <= BestBid(bk.bids)

\* PushBack with push_front in the place of push_back.
PushFront(levels, price, o) ==
    IF price \in DOMAIN levels
    THEN [levels EXCEPT ![price] = <<o>> \o @]
    ELSE [p \in DOMAIN levels \cup {price} |->
            IF p = price THEN <<o>> ELSE levels[p]]

\* levels[price].push_back(o): operator[] creates the level when absent.
PushBack(levels, price, o) ==
    IF price \in DOMAIN levels
    THEN [levels EXCEPT ![price] = Append(@, o)]
    ELSE [p \in DOMAIN levels \cup {price} |->
            IF p = price THEN <<o>> ELSE levels[p]]

\* EraseLevel with the list emptied and its key left in the map.
EraseLevelKept(levels, price) == [levels EXCEPT ![price] = <<>>]

\* levels.erase(price).
EraseLevel(levels, price) == [p \in DOMAIN levels \ {price} |-> levels[p]]

\* orders_.erase(orderId).
EraseOrder(index, orderId) == [i \in DOMAIN index \ {orderId} |-> index[i]]

\* orders_.insert({id, entry}).
InsertOrder(index, o) ==
    [i \in DOMAIN index \cup {o.orderId} |->
        IF i = o.orderId /\ i \notin DOMAIN index THEN o ELSE index[i]]

\* EraseAt with the iterator left at the front of the list.
EraseAtFront(queue, orderId) == Tail(queue)

\* list.erase(iterator): the entry's iterator points at the node holding the order.
EraseAt(queue, orderId) == SelectSeq(queue, LAMBDA o : o.orderId # orderId)

\* addTrade lines 396-408: the order goes to the tail of its level and into orders_.
Admit(bk, o) ==
    [bids |-> IF o.side = "Buy" THEN PushBack(bk.bids, o.price, o) ELSE bk.bids,
     asks |-> IF o.side = "Buy" THEN bk.asks ELSE PushBack(bk.asks, o.price, o),
     orders |-> InsertOrder(bk.orders, o)]

\* Duplicate with the check of line 393 left out.
DuplicateUnchecked(bk, o) == FALSE

\* Unmatchable with the check of line 394 left out.
UnmatchableUnchecked(bk, o) == FALSE

\* addTrade's two early returns.
Duplicate(bk, o) == o.orderId \in DOMAIN bk.orders
Unmatchable(bk, o) == o.orderType = "FillAndKill" /\ ~canMatch(bk, o.side, o.price)

\* What a call leaves in call: the handler, the id it was given, the order it
\* was given (addTrade) or made (ModifyOrder), and how it went.
Call(op, orderId, order, result) ==
    [op |-> op, orderId |-> orderId, order |-> order, result |-> result]

NoOrder == Order("none", 0, "none", 0, 0)
NoCall == Call("none", 0, NoOrder, "none")

Init ==
    /\ bids = NoLevels
    /\ asks = NoLevels
    /\ orders = NoLevels
    /\ pc = "idle"
    /\ call = NoCall
    /\ trades = <<>>
    /\ entered = 0

\* The orders queued on one side, over all its levels.
Queued(levels) ==
    UNION {{levels[p][k] : k \in 1..Len(levels[p])} : p \in DOMAIN levels}

\* Sum of getRemainingQuantity() over a set of orders.
RECURSIVE Total(_)
Total(S) ==
    IF S = {} THEN 0
    ELSE LET o == CHOOSE x \in S : TRUE IN o.remainingQuantity + Total(S \ {o})

\* The remaining quantity of all orders queued in book bk.
RestingQuantity(bk) == Total(Queued(bk.bids) \cup Queued(bk.asks))

\* addTrade, lines 392-409, on book bk: the book it leaves and where it goes next.
addTradeOn(bk, o) ==
    IF Duplicate(bk, o) THEN [book |-> bk, result |-> "duplicate", pc |-> "returned"]
    ELSE IF Unmatchable(bk, o) THEN [book |-> bk, result |-> "rejected", pc |-> "returned"]
    ELSE [book |-> Admit(bk, o), result |-> "admitted", pc |-> "match"]

\* OrderBook::addTrade(order), up to its call of MatchOrders.
addTrade(o) ==
    /\ pc = "idle"
    /\ LET r == addTradeOn(Book, o)
       IN /\ bids' = r.book.bids
          /\ asks' = r.book.asks
          /\ orders' = r.book.orders
          /\ pc' = r.pc
          /\ call' = Call("addTrade", o.orderId, o, r.result)
          /\ entered' = RestingQuantity(r.book)
    /\ UNCHANGED trades

\* cancelOrder lines 423-440 on book bk, orderId being in orders_.
Cancelled(bk, orderId) ==
    LET o == bk.orders[orderId]
        side == IF o.side = "Buy" THEN bk.bids ELSE bk.asks
        queue == EraseAt(side[o.price], orderId)
        left == IF queue = <<>> THEN EraseLevel(side, o.price)
                ELSE [side EXCEPT ![o.price] = queue]
    IN [bids |-> IF o.side = "Buy" THEN left ELSE bk.bids,
        asks |-> IF o.side = "Buy" THEN bk.asks ELSE left,
        orders |-> EraseOrder(bk.orders, orderId)]

\* OrderBook::cancelOrder(orderId).
cancelOrder(orderId) ==
    /\ pc = "idle"
    /\ LET known == orderId \in DOMAIN orders
           bk == IF known THEN Cancelled(Book, orderId) ELSE Book
       IN /\ bids' = bk.bids
          /\ asks' = bk.asks
          /\ orders' = bk.orders
          /\ call' = Call("cancelOrder", orderId, NoOrder,
                          IF known THEN "canceled" ELSE "unknown")
    /\ pc' = "returned"
    /\ UNCHANGED <<trades, entered>>

\* The values a read of a field of a freed Order can give: any of its type.
ReadFreed(stale, domain) == domain

\* ModifyOrder with the check of line 449 left out: an id that is not in orders_
\* goes on to addTrade like a live one.
ModifyOrderUnchecked(m) ==
    /\ pc = "idle"
    /\ \E orderType \in OrderType :
         LET o == makeOrderPointer(m, orderType)
             r == addTradeOn(IF m.orderId \in DOMAIN orders
                             THEN Cancelled(Book, m.orderId) ELSE Book, o)
         IN /\ bids' = r.book.bids
            /\ asks' = r.book.asks
            /\ orders' = r.book.orders
            /\ pc' = r.pc
            /\ call' = Call("ModifyOrder", m.orderId, o, r.result)
            /\ entered' = RestingQuantity(r.book)
    /\ UNCHANGED trades

\* OrderBook::ModifyOrder(order), up to addTrade's call of MatchOrders.  The
\* order type is read at line 455 from the Order that cancelOrder has freed.
ModifyOrder(m) ==
    /\ pc = "idle"
    /\ IF m.orderId \notin DOMAIN orders
       THEN /\ call' = Call("ModifyOrder", m.orderId, NoOrder, "unknown")
            /\ pc' = "returned"
            /\ UNCHANGED <<bids, asks, orders, entered>>
       ELSE \E orderType \in ReadFreed(orders[m.orderId].orderType, OrderType) :
              LET o == makeOrderPointer(m, orderType)
                  r == addTradeOn(Cancelled(Book, m.orderId), o)
              IN /\ bids' = r.book.bids
                 /\ asks' = r.book.asks
                 /\ orders' = r.book.orders
                 /\ pc' = r.pc
                 /\ call' = Call("ModifyOrder", m.orderId, o, r.result)
                 /\ entered' = RestingQuantity(r.book)
    /\ UNCHANGED trades

\* Crossing with the comparison of line 330 taken the wrong way round at equal
\* prices: a bid and an ask at the same price are left unmatched.
CrossingStrictly(bk) ==
    /\ DOMAIN bk.bids # {}
    /\ DOMAIN bk.asks # {}
    /\ ~(BestBid(bk.bids) <= BestAsk(bk.asks))

\* MatchOrders lines 323-332: the outer loop goes on while neither side is empty
\* and the best bid is not below the best ask.
Crossing(bk) ==
    /\ DOMAIN bk.bids # {}
    /\ DOMAIN bk.asks # {}
    /\ ~(BestBid(bk.bids) < BestAsk(bk.asks))

\* Overfill with the comparison of line 157 taken as >=: a Fill of all that
\* remains throws.
OverfillAtEqual(o, quantity) == quantity >= o.remainingQuantity

\* Order::Fill throws when quantity > remainingQuantity_.
Overfill(o, quantity) == quantity > o.remainingQuantity

\* AfterFill with a head that is only partly filled sent to the back of its list.
AfterFillToBack(levels, price, o) ==
    LET queue == IF isFilled(o) THEN Tail(levels[price])
                 ELSE Tail(levels[price]) \o <<o>>
    IN IF queue = <<>> THEN EraseLevel(levels, price)
       ELSE [levels EXCEPT ![price] = queue]

\* AfterFill with the head popped whether or not the trade filled it.
AfterFillPopped(levels, price, o) ==
    LET queue == Tail(levels[price])
    IN IF queue = <<>> THEN EraseLevel(levels, price)
       ELSE [levels EXCEPT ![price] = queue]

\* Lines 345-359 for one side: the head o, already filled by the trade, is popped
\* when it is filled, and its level erased when that leaves it empty.
AfterFill(levels, price, o) ==
    LET queue == IF isFilled(o) THEN Tail(levels[price])
                 ELSE <<o>> \o Tail(levels[price])
    IN IF queue = <<>> THEN EraseLevel(levels, price)
       ELSE [levels EXCEPT ![price] = queue]

\* IndexAfterFill with lines 347 and 351 left out: a filled order keeps its entry.
IndexAfterFillKept(index, o) ==
    [i \in DOMAIN index |-> IF i = o.orderId THEN o ELSE index[i]]

\* The same Order seen through orders_: the entry shares it with the list, and is
\* erased when the order is filled (lines 347, 351).
IndexAfterFill(index, o) ==
    IF isFilled(o) THEN EraseOrder(index, o.orderId)
    ELSE [i \in DOMAIN index |-> IF i = o.orderId THEN o ELSE index[i]]

\* Lines 361-362 read the order through the reference taken at lines 337-338.
\* A filled order has left the list and orders_; unless it is the order of the
\* call in flight, which addTrade's parameter keeps alive, it has been freed.
TradeInfos(o, quantity, incoming) ==
    IF isFilled(o) /\ o.orderId # incoming
    THEN {TradeInfo(i, p, quantity) : i \in ReadFreed(o.orderId, OrderIds),
                                      p \in ReadFreed(o.price, Prices)}
    ELSE {TradeInfo(o.orderId, o.price, quantity)}

\* One iteration of the inner loop of MatchOrders, lines 335-363.
MatchOrders ==
    /\ pc = "match"
    /\ Crossing(Book)
    /\ LET bidPrice == BestBid(bids)
           askPrice == BestAsk(asks)
           bid == Head(bids[bidPrice])
           ask == Head(asks[askPrice])
           tradeQuantity == Min({bid.remainingQuantity, ask.remainingQuantity})
       IN IF Overfill(bid, tradeQuantity) \/ Overfill(ask, tradeQuantity)
          THEN /\ pc' = "logic_error"
               /\ UNCHANGED <<bids, asks, orders, call, trades, entered>>
          ELSE LET filledBid == Fill(bid, tradeQuantity)
                   filledAsk == Fill(ask, tradeQuantity)
               IN /\ bids' = AfterFill(bids, bidPrice, filledBid)
                  /\ asks' = AfterFill(asks, askPrice, filledAsk)
                  /\ orders' = IndexAfterFill(IndexAfterFill(orders, filledBid), filledAsk)
                  /\ \E b \in TradeInfos(filledBid, tradeQuantity, call.orderId),
                        a \in TradeInfos(filledAsk, tradeQuantity, call.orderId) :
                        trades' = Append(trades, Trade(b, a))
                  /\ UNCHANGED <<pc, call, entered>>

\* MatchOrders lines 323-332 and 365-383: the loop ends; the two blocks that look
\* at the head of each best level for a FillAndKill order are empty.
MatchOrdersReturn ==
    /\ pc = "match"
    /\ ~Crossing(Book)
    /\ pc' = "returned"
    /\ UNCHANGED <<bids, asks, orders, call, trades, entered>>

\* An access through a dangling reference that the platform does not let pass:
\* in every iteration of the matching loop (one of the two heads is always filled
\* and popped), in cancelOrder of a live id, and in ModifyOrder of a live id.
InvalidAccess ==
    /\ \/ pc = "match" /\ Crossing(Book)
       \/ pc = "idle" /\ DOMAIN orders # {}
    /\ pc' = "fault"
    /\ UNCHANGED <<bids, asks, orders, call, trades, entered>>

\* The caller drops what the call returned (main, lines 499-506) and is ready
\* for its next call.
Discard ==
    /\ pc = "returned"
    /\ pc' = "idle"
    /\ call' = NoCall
    /\ trades' = <<>>
    /\ entered' = 0
    /\ UNCHANGED <<bids, asks, orders>>

\* orders_.size().
size(index) == Cardinality(DOMAIN index)

\* OrderBook::getSize(), a const member: the caller gets size(orders).
getSize ==
    /\ pc = "idle"
    /\ pc' = "returned"
    /\ call' = Call("getSize", 0, NoOrder, "size")
    /\ UNCHANGED <<bids, asks, orders, trades, entered>>

\* The keys of a map in the order its comparator gives: std::greater for bids_
\* (line 285), std::less for asks_ (line 283).
RECURSIVE Descending(_)
Descending(S) == IF S = {} THEN <<>> ELSE <<Max(S)>> \o Descending(S \ {Max(S)})

RECURSIVE Ascending(_)
Ascending(S) == IF S = {} THEN <<>> ELSE <<Min(S)>> \o Ascending(S \ {Min(S)})

\* std::accumulate over a list with the lambda of lines 479-481.  The initial
\* value is (Quantity)(0), so that the sum is kept in a Quantity: what the lambda
\* returns (a std::size_t) is converted back to 32 bits at every step.
RECURSIVE accumulate(_, _)
accumulate(queue, runningSum) ==
    IF queue = <<>> THEN runningSum
    ELSE accumulate(Tail(queue),
                    (runningSum + Head(queue).remainingQuantity) % QuantityWrap)

\* The lambda makeLevel of getLevels.
makeLevel(price, queue) == [price |-> price, quantity |-> accumulate(queue, 0)]

\* One side of the result: a Level per key, in the order of the keys.
Levels(levels, keys) ==
    [k \in 1..Len(keys) |-> makeLevel(keys[k], levels[keys[k]])]

\* What getLevels returns on book bk.
OrderbookLevels(bk) ==
    [bids |-> Levels(bk.bids, Descending(DOMAIN bk.bids)),
     asks |-> Levels(bk.asks, Ascending(DOMAIN bk.asks))]

\* OrderBook::getLevels(), a const member: the caller gets OrderbookLevels(Book).
getLevels ==
    /\ pc = "idle"
    /\ pc' = "returned"
    /\ call' = Call("getLevels", 0, NoOrder, "levels")
    /\ UNCHANGED <<bids, asks, orders, trades, entered>>

Next ==
    \/ \E o \in Orders : addTrade(o)
    \/ \E orderId \in OrderIds : cancelOrder(orderId)
    \/ \E m \in ModOrders : ModifyOrder(m)
    \/ getSize
    \/ getLevels
    \/ MatchOrders
    \/ MatchOrdersReturn
    \/ InvalidAccess
    \/ Discard

Spec == Init /\ [][Next]_vars

(***************************************************************************)
(* What the properties below speak of.                                     *)
(***************************************************************************)

\* The list at a price, empty when the side has no such level.
QueueAt(levels, price) == IF price \in DOMAIN levels THEN levels[price] ELSE <<>>

\* A call has returned to its caller (and the caller may have dropped the result).
Returned == pc \in {"returned", "idle"}

\* C1: after a submit returns, no FillAndKill order is in the Order Index or in
\* any price-level queue: the unmatched remainder of a partially filled
\* FillAndKill order is discarded.
C1_FillAndKillNeverRests ==
    Returned =>
        /\ \A i \in DOMAIN orders : orders[i].orderType # "FillAndKill"
        /\ \A o \in Queued(bids) \cup Queued(asks) : o.orderType # "FillAndKill"

\* C2: after every submit, cancel or modify returns, one of the two side indexes
\* is empty or the highest bid price is strictly below the lowest ask price.
C2_NeverCrossed ==
    Returned =>
        \/ DOMAIN bids = {}
        \/ DOMAIN asks = {}
        \/ \A b \in DOMAIN bids, a \in DOMAIN asks : b < a

\* C2's case: a call that traded returned and left orders on both sides.
C2_Witness ==
    /\ pc = "returned"
    /\ trades # <<>>
    /\ DOMAIN bids # {}
    /\ DOMAIN asks # {}

\* Order a is ahead of order b in the list of one level of a side.
Ahead(levels, a, b) ==
    \E p \in DOMAIN levels : \E i, j \in 1..Len(levels[p]) :
        i < j /\ levels[p][i].orderId = a /\ levels[p][j].orderId = b

\* Orders a and b are in the list of the same level of a side.
SameLevel(levels, a, b) ==
    \E p \in DOMAIN levels : \E i, j \in 1..Len(levels[p]) :
        levels[p][i].orderId = a /\ levels[p][j].orderId = b

\* This step is one trade of the matching loop.
TradeStep == pc = "match" /\ trades' # trades

\* This step admits order x to the tail of a level (by addTrade or ModifyOrder).
AdmissionOf(x) == pc = "idle" /\ call'.orderId = x /\ call'.result = "admitted"

\* Over one step on one side: an order behind another is not touched by a trade,
\* stays behind it unless the one ahead is admitted anew, and an order admitted
\* in this step is behind all others of its level.
PriorityKept(old, new) ==
    /\ \A a, b \in OrderIds :
          Ahead(old, a, b) =>
              /\ TradeStep =>
                    \E o \in Queued(old) : o.orderId = b /\ o \in Queued(new)
              /\ SameLevel(new, a, b) /\ ~AdmissionOf(a) => Ahead(new, a, b)
    /\ \A x, b \in OrderIds :
          AdmissionOf(x) /\ b # x /\ SameLevel(new, b, x) => Ahead(new, b, x)

\* C3: price-time priority.  Of two live orders at the same price on the same
\* side, the one admitted to the level later (by submit or by its last modify)
\* is behind the other, and no trade reduces it while the other is live.
C3_PriceTimePriority ==
    [][PriorityKept(bids, bids') /\ PriorityKept(asks, asks')]_vars

\* C3's case: a trade has partly filled the head of a level that holds a second
\* order behind it.
C3_Witness ==
    /\ trades # <<>>
    /\ \E p \in DOMAIN bids :
          /\ Len(bids[p]) >= 2
          /\ bids[p][1].remainingQuantity < bids[p][1].initQuantity
          /\ bids[p][2].remainingQuantity = bids[p][2].initQuantity

\* C4: every trade pairs the head of the best bid level with the head of the
\* best ask level: its quantity is the smaller of their remaining quantities
\* before the fill, each leg carries its order's id and limit price, and the bid
\* leg's price is at least the ask leg's; also when the fill removes an order.
C4_TradePairsHeads ==
    [][TradeStep =>
          LET bid == bids[Max(DOMAIN bids)][1]
              ask == asks[Min(DOMAIN asks)][1]
              quantity == IF bid.remainingQuantity <= ask.remainingQuantity
                          THEN bid.remainingQuantity ELSE ask.remainingQuantity
              t == trades'[Len(trades')]
          IN /\ Len(trades') = Len(trades) + 1
             /\ t.bid = [orderId |-> bid.orderId, price |-> bid.price,
                         quantity |-> quantity]
             /\ t.ask = [orderId |-> ask.orderId, price |-> ask.price,
                         quantity |-> quantity]
             /\ t.bid.price >= t.ask.price]_vars

\* Sum of the quantities of a Trades vector.
RECURSIVE TradedQuantity(_)
TradedQuantity(ts) ==
    IF ts = <<>> THEN 0 ELSE Head(ts).bid.quantity + TradedQuantity(Tail(ts))

\* C5 as claimed: over one run of the matching loop, the remaining quantity
\* summed over the book (the admitted order included) falls by exactly the sum of
\* the quantities of the trades the loop returned.
C5_FallsByTradedQuantity ==
    pc = "returned" /\ call.result = "admitted" =>
        entered - RestingQuantity(Book) = TradedQuantity(trades)

\* C5 as amended: over one run of the matching loop, the remaining quantity
\* summed over the book falls by exactly twice the sum of the quantities of the
\* trades the loop returned: every trade fills its bid and its ask by its quantity.
C5_QuantityConserved ==
    pc = "returned" /\ call.result = "admitted" =>
        entered - RestingQuantity(Book) = 2 * TradedQuantity(trades)

\* C5's case: a loop returned two trades and left orders in the book.
C5_Witness ==
    /\ pc = "returned"
    /\ call.result = "admitted"
    /\ Len(trades) >= 2
    /\ Queued(bids) \cup Queued(asks) # {}

\* A list without the order of id orderId.
Without(queue, orderId) == SelectSeq(queue, LAMBDA o : o.orderId # orderId)

\* Over one step on one side: the list at every price is what it was, without
\* order orderId, and a level has gone only if orderId was alone in it.
OnlyRemoved(old, new, orderId) ==
    /\ \A p \in Prices : QueueAt(new, p) = Without(QueueAt(old, p), orderId)
    /\ DOMAIN new \subseteq DOMAIN old
    /\ \A p \in DOMAIN new : new[p] # <<>>
    /\ \A p \in DOMAIN old \ DOMAIN new :
          Len(old[p]) = 1 /\ old[p][1].orderId = orderId

\* C6: cancel of a live id removes exactly that order: the id leaves the Order
\* Index and its queue, size() is one less, no trade is produced, every other
\* order keeps its side, price, remaining quantity and place in its queue, and
\* a level goes only if the canceled order was the last one in it.
C6_CancelRemovesExactlyThatOrder ==
    [][pc = "idle" /\ call'.op = "cancelOrder" /\ call'.orderId \in DOMAIN orders =>
          LET id == call'.orderId
          IN /\ pc' = "returned"
             /\ DOMAIN orders' = DOMAIN orders \ {id}
             /\ Cardinality(DOMAIN orders') = Cardinality(DOMAIN orders) - 1
             /\ \A i \in DOMAIN orders' : orders'[i] = orders[i]
             /\ \A o \in Queued(bids') \cup Queued(asks') : o.orderId # id
             /\ trades' = <<>>
             /\ OnlyRemoved(bids, bids', id)
             /\ OnlyRemoved(asks, asks', id)]_vars

\* C6's case: a cancel of a live id returned and left another order at the level
\* of the canceled one.
C6_Witness ==
    /\ pc = "returned"
    /\ call.op = "cancelOrder"
    /\ call.result = "canceled"
    /\ Queued(bids) \cup Queued(asks) # {}

\* C7: modify of a live id does what cancel of the id followed by submit of a
\* new order with the id, the new price, side and quantity and the original
\* order's time-in-force kind does: the order submitted has the original's kind,
\* and the book that enters the matching loop is the one the two calls give.
C7_ModifyIsCancelThenSubmit ==
    [][pc = "idle" /\ call'.op = "ModifyOrder" /\ call'.orderId \in DOMAIN orders =>
          LET id == call'.orderId
              made == call'.order
              o == Order(orders[id].orderType, id, made.side, made.price,
                         made.initQuantity)
              r == addTradeOn(Cancelled(Book, id), o)
          IN /\ made.orderType = orders[id].orderType
             /\ bids' = r.book.bids
             /\ asks' = r.book.asks
             /\ orders' = r.book.orders
             /\ pc' = r.pc
             /\ call'.result = r.result]_vars

\* The last order of the list at the level of order o.
LastAtLevel(o) ==
    LET levels == IF o.side = "Buy" THEN bids ELSE asks
        queue == QueueAt(levels, o.price)
    IN IF queue = <<>> THEN NoOrder ELSE queue[Len(queue)]

\* C8: an order that is live after modify returns is at the new price on the new
\* side, and is the last order of the queue there, behind every order that was
\* resting at that price.
C8_ModifyResetsPriority ==
    pc = "returned" /\ call.op = "ModifyOrder" /\ call.orderId \in DOMAIN orders =>
        LET o == orders[call.orderId]
        IN /\ o.side = call.order.side
           /\ o.price = call.order.price
           /\ LastAtLevel(o) = o

\* C8's case: a modify returned and its order is live behind another one.
C8_Witness ==
    /\ pc = "returned"
    /\ call.op = "ModifyOrder"
    /\ call.orderId \in DOMAIN orders
    /\ \E levels \in {bids, asks} : \E p \in DOMAIN levels :
          /\ Len(levels[p]) >= 2
          /\ levels[p][Len(levels[p])].orderId = call.orderId

\* C9: a submit whose id is live in the Order Index returns no trade, raises no
\* error and leaves both side indexes and the Order Index, hence every resting
\* order's remaining quantity and place, as they were, whatever the new order's
\* side, price, quantity or type.
C9_DuplicateSubmitIsNoOp ==
    [][pc = "idle" /\ call'.op = "addTrade" /\ call'.orderId \in DOMAIN orders =>
          /\ pc' = "returned"
          /\ trades' = <<>>
          /\ bids' = bids
          /\ asks' = asks
          /\ orders' = orders]_vars

\* C9's case: a submit with a live id, and another side, price and type than the
\* live order's, returned.
C9_Witness ==
    /\ pc = "returned"
    /\ call.op = "addTrade"
    /\ call.orderId \in DOMAIN orders
    /\ call.order.side # orders[call.orderId].side
    /\ call.order.price # orders[call.orderId].price
    /\ call.order.orderType # orders[call.orderId].orderType

\* Order o can match now: as Buy, the ask index is not empty and its price is
\* not below the best ask; as Sell, the same against the best bid.
CanMatchNow(o) ==
    IF o.side = "Buy"
    THEN DOMAIN asks # {} /\ \E a \in DOMAIN asks : o.price >= a
    ELSE DOMAIN bids # {} /\ \E b \in DOMAIN bids : o.price <= b

\* This step is the start of a submit of a FillAndKill order.
FillAndKillSubmit ==
    pc = "idle" /\ call'.op = "addTrade" /\ call'.order.orderType = "FillAndKill"

\* A submit of a FillAndKill order that cannot match returns no trade and leaves
\* the book, its levels and the Order Index as they were.
FillAndKillRejected ==
    FillAndKillSubmit /\ ~CanMatchNow(call'.order) =>
        /\ pc' = "returned"
        /\ trades' = <<>>
        /\ bids' = bids
        /\ asks' = asks
        /\ orders' = orders

\* Some trade of the call has order o as the leg of its side.
TradedWith(ts, o) ==
    \E k \in 1..Len(ts) :
        IF o.side = "Buy" THEN ts[k].bid.orderId = o.orderId
        ELSE ts[k].ask.orderId = o.orderId

\* A submit that admitted a FillAndKill order has returned a trade with it.
FillAndKillTraded ==
    pc = "returned" /\ call.op = "addTrade" /\ call.result = "admitted"
        /\ call.order.orderType = "FillAndKill"
    => TradedWith(trades, call.order)

\* C10 as claimed: a FillAndKill order that cannot match is rejected and leaves
\* the book unchanged; whenever canMatch is true, the submit returns at least
\* one trade involving the order.
C10_FillAndKillTradesWhenMatchable ==
    [][/\ FillAndKillRejected
       /\ FillAndKillSubmit /\ CanMatchNow(call'.order) =>
             \/ pc' = "match" /\ call'.result = "admitted"
             \/ pc' = "returned" /\ TradedWith(trades', call'.order)
       /\ FillAndKillTraded']_vars

\* C10 as amended: a FillAndKill order that cannot match is rejected and leaves
\* the book unchanged; when canMatch is true and the order's id is not live in
\* the Order Index, the submit admits the order and returns at least one trade
\* involving it.
C10_FillAndKillAdmission ==
    [][/\ FillAndKillRejected
       /\ FillAndKillSubmit /\ CanMatchNow(call'.order)
             /\ call'.orderId \notin DOMAIN orders =>
             pc' = "match" /\ call'.result = "admitted"
       /\ FillAndKillTraded']_vars

\* C10's case: a submit of a FillAndKill order that could match has returned.
C10_Witness ==
    /\ pc = "returned"
    /\ call.op = "addTrade"
    /\ call.result = "admitted"
    /\ call.order.orderType = "FillAndKill"
    /\ trades # <<>>

\* A cancel or a modify starts with an id that is not in the Order Index.
NotLive ==
    /\ pc = "idle"
    /\ call'.op \in {"cancelOrder", "ModifyOrder"}
    /\ call'.orderId \notin DOMAIN orders

\* C11: cancel and modify on an id that is not live return without an error and
\* leave both side indexes, the Order Index and size() unchanged, modify with an
\* empty trade list; a canceled id is not live afterwards, so that canceling it
\* a second time changes nothing.
C11_NotLiveIsNoOp ==
    [][/\ NotLive =>
             /\ pc' = "returned"
             /\ trades' = <<>>
             /\ <<bids, asks, orders>>' = <<bids, asks, orders>>
             /\ size(orders') = size(orders)
       /\ pc = "idle" /\ call'.op = "cancelOrder" =>
             call'.orderId \notin DOMAIN orders']_vars

\* C11's case: a cancel or a modify of an id that is not live has returned, with
\* other orders in the book.
C11_Witness ==
    /\ pc = "returned"
    /\ call.op \in {"cancelOrder", "ModifyOrder"}
    /\ call.result = "unknown"
    /\ DOMAIN orders # {}

\* The places <<side, price, position>> of the lists of one side where an order
\* with this id sits.
PlacesIn(levels, side, orderId) ==
    UNION {{<<side, p, k>> : k \in {j \in 1..Len(levels[p]) :
                                        levels[p][j].orderId = orderId}} :
           p \in DOMAIN levels}

Places(orderId) == PlacesIn(bids, "Buy", orderId) \cup PlacesIn(asks, "Sell", orderId)

\* The number of list nodes of one side.
Nodes(levels) ==
    Cardinality(UNION {{<<p, k>> : k \in 1..Len(levels[p])} : p \in DOMAIN levels})

\* C12: in every reachable state an id is in the Order Index exactly when one
\* order with that id sits in one queue, and that queue is on the order's own
\* side at the order's own limit price; an id that is not in the Order Index
\* (never admitted, fully filled or canceled) sits in no queue; size() is the
\* total number of queued orders.
C12_IndexAgreesWithQueues ==
    /\ \A i \in OrderIds :
          IF i \in DOMAIN orders
          THEN /\ orders[i].orderId = i
               /\ Cardinality(Places(i)) = 1
               /\ \A x \in Places(i) :
                     /\ x[1] = orders[i].side
                     /\ x[2] = orders[i].price
                     /\ (IF x[1] = "Buy" THEN bids ELSE asks)[x[2]][x[3]] = orders[i]
          ELSE Places(i) = {}
    /\ DOMAIN orders \subseteq OrderIds
    /\ size(orders) = Nodes(bids) + Nodes(asks)

\* C12's case: a trade has filled and removed an order while two others rest.
C12_Witness ==
    /\ trades # <<>>
    /\ size(orders) = 2
    /\ \E i \in OrderIds : i \notin DOMAIN orders /\ Places(i) = {}

\* The prices of one side of a getLevels result, in the order of the result.
LevelPrices(side) == [k \in 1..Len(side) |-> side[k].price]

\* One side of a getLevels result has one entry per level of the side index and
\* no other, and each entry carries the sum of the remaining quantities of the
\* orders queued at its price.
OneEntryPerLevel(side, levels) ==
    /\ Len(side) = Cardinality(DOMAIN levels)
    /\ {side[k].price : k \in 1..Len(side)} = DOMAIN levels
    /\ \A k \in 1..Len(side) :
          side[k].quantity =
              Total({levels[side[k].price][j] : j \in 1..Len(levels[side[k].price])})

\* C13: getLevels returns, per side, exactly one (price, quantity) entry for
\* every resting price level and none for any other price, the bids in strictly
\* descending price order and the asks in strictly ascending price order, each
\* quantity being the sum of the remaining quantities of the orders at that
\* price; the call leaves the engine's state unchanged.
C13_LevelsAreTheRestingLevels ==
    [][pc = "idle" /\ call'.op = "getLevels" =>
          LET result == OrderbookLevels(Book)
          IN /\ pc' = "returned"
             /\ <<bids, asks, orders>>' = <<bids, asks, orders>>
             /\ OneEntryPerLevel(result.bids, bids)
             /\ OneEntryPerLevel(result.asks, asks)
             /\ \A j, k \in 1..Len(result.bids) :
                   j < k => result.bids[j].price > result.bids[k].price
             /\ \A j, k \in 1..Len(result.asks) :
                   j < k => result.asks[j].price < result.asks[k].price]_vars

\* The GoodTillCanceled orders of the Order Index.
GoodTillCanceledLive == {i \in DOMAIN orders : orders[i].orderType = "GoodTillCanceled"}

\* A cancel or a modify starts with this id.
CalledWith(orderId) ==
    /\ pc = "idle"
    /\ call'.op \in {"cancelOrder", "ModifyOrder"}
    /\ call'.orderId = orderId

\* The order with this id is the head of the best level of its side.
IsHead(orderId) ==
    LET o == orders[orderId]
    IN IF o.side = "Buy"
       THEN o.price = BestBid(bids) /\ Head(bids[o.price]).orderId = orderId
       ELSE o.price = BestAsk(asks) /\ Head(asks[o.price]).orderId = orderId

\* The step is a trade of this quantity.
TradeOf(quantity) ==
    /\ TradeStep
    /\ trades'[Len(trades')].bid.quantity = quantity
    /\ trades'[Len(trades')].ask.quantity = quantity

\* The leg of the step's trade on the side of live order orderId names it.
LegOf(orderId) ==
    LET t == trades'[Len(trades')]
    IN (IF orders[orderId].side = "Buy" THEN t.bid ELSE t.ask).orderId = orderId

\* C14: an admitted GoodTillCanceled order is in the Order Index, and a
\* GoodTillCanceled order of the Order Index leaves it only in a step that is a
\* trade for all its remaining quantity, with the order at the head of the best
\* level of its side, or a cancel or modify called with its id; in every other
\* step it keeps its side, price and type, and its remaining quantity changes
\* only by falling by the quantity of a trade of which it is a leg.
C14_GoodTillCanceledStaysLive ==
    [][/\ pc = "idle" /\ call'.op = "addTrade" /\ call'.result = "admitted" =>
             call'.orderId \in DOMAIN orders' /\ orders'[call'.orderId] = call'.order
       /\ \A i \in GoodTillCanceledLive :
             \/ CalledWith(i)
             \/ /\ i \in DOMAIN orders'
                /\ orders'[i] = [orders[i] EXCEPT !.remainingQuantity =
                                                    orders'[i].remainingQuantity]
                /\ \/ orders'[i].remainingQuantity = orders[i].remainingQuantity
                   \/ /\ orders'[i].remainingQuantity < orders[i].remainingQuantity
                      /\ IsHead(i)
                      /\ LegOf(i)
                      /\ TradeOf(orders[i].remainingQuantity
                                   - orders'[i].remainingQuantity)
             \/ /\ i \notin DOMAIN orders'
                /\ IsHead(i)
                /\ TradeOf(orders[i].remainingQuantity)]_vars

\* C14's case: a GoodTillCanceled order that an earlier call has partly filled is
\* still live after the submit of another order has returned.
C14_Witness ==
    /\ pc = "returned"
    /\ call.op = "addTrade"
    /\ call.result = "admitted"
    /\ trades = <<>>
    /\ \E i \in GoodTillCanceledLive :
          /\ i # call.orderId
          /\ 0 < orders[i].remainingQuantity
          /\ orders[i].remainingQuantity < orders[i].initQuantity

\* The two orders of main, lines 503-504, and of scenario 2 of the spec, at a
\* price p and with quantities 2q and q of the model.  The code compares a price
\* only with other prices, and the steps of this scenario take the minimum and
\* the difference of quantities: the outcome at price 15 with quantities 4 and
\* 2 is the outcome at p with 2q and q.
Scenario2Buy(p, q) == Order("GoodTillCanceled", 1, "Buy", p, 2 * q)
Scenario2Sell(p, q) == Order("GoodTillCanceled", 2, "Sell", p, q)

\* The book after the Buy order alone has been submitted to an empty book.
Scenario2Book(p, q) == Admit([bids |-> NoLevels, asks |-> NoLevels, orders |-> NoLevels],
                             Scenario2Buy(p, q))

\* The submit of the Sell order to that book has admitted it.
Scenario2Admitted(p, q) ==
    /\ pc = "match"
    /\ call = Call("addTrade", 2, Scenario2Sell(p, q), "admitted")
    /\ trades = <<>>
    /\ Book = Admit(Scenario2Book(p, q), Scenario2Sell(p, q))

\* One trade of quantity q between the two orders has been made, order 1 rests
\* with q remaining, and size() gives n.
Scenario2Traded(p, q, n) ==
    /\ call = Call("addTrade", 2, Scenario2Sell(p, q), "admitted")
    /\ trades = <<[bid |-> [orderId |-> 1, price |-> p, quantity |-> q],
                  ask |-> [orderId |-> 2, price |-> p, quantity |-> q]]>>
    /\ bids = [x \in {p} |-> <<Fill(Scenario2Buy(p, q), q)>>]
    /\ asks = NoLevels
    /\ orders = [i \in {1} |-> Fill(Scenario2Buy(p, q), q)]
    /\ size(orders) = n

\* The submit of the Sell order goes from its admission, through one iteration
\* of the matching loop, to its return with the outcome above.
Scenario2(n) ==
    \A p \in Prices, q \in Quantities \ {0} :
        2 * q \in Quantities =>
            /\ Scenario2Admitted(p, q) =>
                   \/ pc' = "fault"
                   \/ pc' = "match" /\ Scenario2Traded(p, q, n)'
            /\ pc = "match" /\ Scenario2Traded(p, q, n) =>
                   pc' = "returned" /\ Scenario2Traded(p, q, n)'

\* C15 as claimed: scenario 2 yields exactly one trade, of the quantity of the
\* Sell order, leaves order 1 resting with the rest of its quantity, and makes
\* size() give 2.
C15_Scenario2SizeTwo == [][Scenario2(2)]_vars

\* C15 as amended: scenario 2 yields exactly one trade, of the quantity of the
\* Sell order, leaves order 1 resting with the rest of its quantity, and makes
\* size() give 1.
C15_Scenario2SizeOne == [][Scenario2(1)]_vars

\* C15's case: the submit of the Sell order of scenario 2 has returned.
C15_Witness ==
    /\ pc = "returned"
    /\ \E p \in Prices, q \in Quantities \ {0} :
          /\ 2 * q \in Quantities
          /\ call = Call("addTrade", 2, Scenario2Sell(p, q), "admitted")
          /\ trades = <<[bid |-> [orderId |-> 1, price |-> p, quantity |-> q],
                        ask |-> [orderId |-> 2, price |-> p, quantity |-> q]]>>
          /\ orders = [i \in {1} |-> Fill(Scenario2Buy(p, q), q)]

\* No price key maps to an empty list.
NoEmptyLevel == \A levels \in {bids, asks} : \A p \in DOMAIN levels : levels[p] # <<>>

\* The step gives a side (levels before, after) a new level only by admitting
\* an order of that side at that price, which is then the level's only order.
CreatedByAppend(before, after, side) ==
    \A p \in DOMAIN after \ DOMAIN before :
        /\ pc = "idle"
        /\ call'.op \in {"addTrade", "ModifyOrder"}
        /\ call'.result = "admitted"
        /\ call'.order.side = side
        /\ call'.order.price = p
        /\ after[p] = <<call'.order>>

\* The step takes a level from a side only by emptying it: a trade that fills
\* the level's only order, or a cancel or modify of the level's only order.
RemovedWhenEmptied(before, after) ==
    \A p \in DOMAIN before \ DOMAIN after :
        /\ Len(before[p]) = 1
        /\ \/ TradeStep /\ IsHead(before[p][1].orderId)
                        /\ TradeOf(before[p][1].remainingQuantity)
           \/ CalledWith(before[p][1].orderId)

\* C16: no price key maps to an empty queue; a level is created only by the
\* step that appends an order to it, and removed only by the step that empties
\* it, by a fill or by a cancel; a submit that is rejected (a duplicate id, a
\* FillAndKill order that cannot match) leaves the levels as they are, and a
\* modify whose submit is rejected creates none.
C16_LevelsExistWhileNonEmpty ==
    [][/\ NoEmptyLevel'
       /\ CreatedByAppend(bids, bids', "Buy")
       /\ CreatedByAppend(asks, asks', "Sell")
       /\ RemovedWhenEmptied(bids, bids')
       /\ RemovedWhenEmptied(asks, asks')
       /\ pc = "idle" /\ call'.result \in {"duplicate", "rejected"} =>
             /\ DOMAIN bids' \subseteq DOMAIN bids
             /\ DOMAIN asks' \subseteq DOMAIN asks
             /\ call'.op = "addTrade" => bids' = bids /\ asks' = asks]_vars

\* C16's case: a submit has created the level of its Sell order and trades have
\* emptied and removed it before the submit returned, with bid levels left.
C16_Witness ==
    /\ pc = "returned"
    /\ call.op = "addTrade"
    /\ call.result = "admitted"
    /\ call.order.side = "Sell"
    /\ trades # <<>>
    /\ asks = NoLevels
    /\ DOMAIN bids # {}

\* Every order of the book has its remaining quantity between 0 and its initial
\* quantity, and above 0 when its initial quantity is.
RemainingInRange ==
    \A o \in Queued(bids) \cup Queued(asks) \cup {orders[i] : i \in DOMAIN orders} :
        /\ 0 <= o.remainingQuantity
        /\ o.remainingQuantity <= o.initQuantity
        /\ o.initQuantity > 0 => o.remainingQuantity > 0

\* C17: in every reachable state every order has 0 <= remaining <= initial; the
\* remaining quantity of an order never increases and decreases only by a Fill
\* of the matching loop, for the quantity of the trade; an order submitted with
\* a positive quantity whose remaining quantity reaches 0 is removed by the
\* same step, so that no live order has remaining 0.
C17_RemainingOnlyFalls ==
    [][/\ RemainingInRange'
       /\ \A i \in DOMAIN orders \cap DOMAIN orders' :
             ~CalledWith(i) =>
                 \/ orders'[i] = orders[i]
                 \/ /\ TradeStep
                    /\ IsHead(i)
                    /\ orders'[i].remainingQuantity < orders[i].remainingQuantity
                    /\ orders'[i] = Fill(orders[i], trades'[Len(trades')].bid.quantity)
       /\ \A i \in DOMAIN orders \ DOMAIN orders' :
             ~CalledWith(i) =>
                 /\ TradeStep
                 /\ IsHead(i)
                 /\ isFilled(Fill(orders[i], trades'[Len(trades')].bid.quantity))]_vars

\* C17's case: a trade has filled and removed the order of the call and left the
\* order it traded with live, with part of its quantity remaining.
C17_Witness ==
    /\ pc = "returned"
    /\ trades # <<>>
    /\ call.orderId \notin DOMAIN orders
    /\ \E i \in DOMAIN orders :
          /\ 0 < orders[i].remainingQuantity
          /\ orders[i].remainingQuantity < orders[i].initQuantity

\* C19: in no sequence of submit, cancel and modify calls does the matching loop
\* call Fill with a quantity greater than the order's remaining quantity: the
\* logic_error of Order::Fill is never raised.
C19_FillNeverThrows ==
    /\ pc # "logic_error"
    /\ pc = "match" /\ Crossing(Book) =>
          \A o \in {Head(bids[BestBid(bids)]), Head(asks[BestAsk(asks)])} :
              ~Overfill(o, Min({Head(bids[BestBid(bids)]).remainingQuantity,
                               Head(asks[BestAsk(asks)]).remainingQuantity}))

\* C19's case: the matching loop has called Fill on two heads with different
\* remaining quantities, for the smaller of the two.
C19_Witness ==
    /\ pc = "match"
    /\ trades # <<>>
    /\ \E i \in DOMAIN orders :
          /\ 0 < orders[i].remainingQuantity
          /\ orders[i].remainingQuantity < orders[i].initQuantity

\* An iteration of the matching loop removes at least one order, so that the
\* trades made and the live orders together never outnumber the live orders
\* at admission.
LoopProgress ==
    pc = "match" /\ pc' = "match" =>
        /\ Len(trades') = Len(trades) + 1
        /\ size(orders') < size(orders)
        /\ Len(trades') + size(orders') <= Len(trades) + size(orders)

\* C18: the matching loop always terminates and every submit and modify call
\* returns: a call that is in the loop stays in it or returns, each iteration
\* removes at least one order, and the number of trades of a call is bounded by
\* the number of live orders at its admission.
C18_EveryCallReturns ==
    [][/\ pc = "idle" /\ call'.op \in {"addTrade", "ModifyOrder"} =>
             pc' \in {"match", "returned"} /\ trades' = <<>>
       /\ pc = "match" => pc' \in {"match", "returned"}
       /\ LoopProgress]_vars

\* What holds of the loop in every outcome: it goes on only by removing an order.
C18_LoopProgress == [][LoopProgress]_vars

\* The call that has returned admitted a FillAndKill order.
FillAndKillAdmitted ==
    /\ pc = "returned"
    /\ call.op \in {"addTrade", "ModifyOrder"}
    /\ call.result = "admitted"
    /\ call.order.orderType = "FillAndKill"

\* C20: when the matching loop has ended in the submit or modify that admitted a
\* FillAndKill order, that order is fully filled and gone from the Order Index
\* and the queues, or it is the head and the only order of the best price level
\* of its own side, so that the heads of the two best levels are the only places
\* where its remainder can be.
C20_FillAndKillRemainderIsBestHead ==
    FillAndKillAdmitted =>
        LET o == call.order
            levels == IF o.side = "Buy" THEN bids ELSE asks
        IN IF o.orderId \in DOMAIN orders
           THEN /\ orders[o.orderId].orderType = "FillAndKill"
                /\ DOMAIN levels # {}
                /\ o.price = (IF o.side = "Buy" THEN BestBid(bids) ELSE BestAsk(asks))
                /\ levels[o.price] = <<orders[o.orderId]>>
           ELSE Places(o.orderId) = {}

\* C20's case: the remainder of the FillAndKill order rests when its call
\* returns, above another level of its side.
C20_Witness ==
    /\ FillAndKillAdmitted
    /\ call.orderId \in DOMAIN orders
    /\ trades # <<>>
    /\ Cardinality(DOMAIN (IF call.order.side = "Buy" THEN bids ELSE asks)) = 2

====
